---- MODULE Spec2Model ----
(***************************************************************************)
(* Model of aws-harness-lab/patch_tf.py: the line-oriented block scanner   *)
(* (find_resource_blocks), the per-block attribute reconciler and          *)
(* adjacency pass (ensure_attributes_in_block) and the driver loop of      *)
(* process_file.                                                           *)
(*                                                                         *)
(* A text line is a record [k, ind, a, v]:                                 *)
(*   k = "header"  <ind>resource "aws_vpn_connection" "main" {             *)
(*   k = "open"    <ind>tags = {                                           *)
(*   k = "close"   <ind>}                                                  *)
(*   k = "close2"  <ind>}}                                                 *)
(*   k = "blank"   (the empty line)                                        *)
(*   k = "comment" <ind># note                                             *)
(*   k = "other"   <ind>type = "ipsec.1"                                   *)
(*   k = "attr"    <ind><name a> = <value>                                 *)
(*   k = "cattr"   <ind># <name a> = <value>                               *)
(* ind is the number of leading spaces, a indexes TARGET_ATTRS (1..4, 0    *)
(* for lines that are no attribute), v is "want" for the desired value of  *)
(* the attribute ("start" / true), "diff" for another one ("stop" /        *)
(* false) and "" for lines that are no attribute.                          *)
(*                                                                         *)
(* Buffers are sequences; indices are the source's 0-based indices, read   *)
(* through At.  None (Python) is -1.                                       *)
(***************************************************************************)
EXTENDS Integers, Sequences, FiniteSets

\* lines     the line buffer of process_file (line 216)
\* enforce   the --enforce flag
\* pc        "start" (before the blocks are located), "ensure" (in the loop
\*           over the blocks), "done" (returned 0), "error" (IndexError)
\* run       1 for the first invocation on the file, 2 for the second
\* input     the lines the current invocation read
\* blocks    the ranges find_resource_blocks returned (line 219)
\* bi        position of the loop of line 226 in blocks (from 1)
\* modified  overall_modified
\* msgs      all_msgs
\* call      arguments and results of the last ensure_attributes_in_block
\*           call: the buffer before (pre), start, end, the returned end
\*           (ret), the buffer after the reconciliation loop (mid), the
\*           returned flag (changed) and messages (msgs); n = 0 before any
\* dry_run   the --dry-run flag
\* file      the text of the file on disk, as the lines text.split("\n")
\*           gives when it is read
VARIABLES lines, enforce, pc, run, input, blocks, bi, modified, msgs, call,
          dry_run, file

vars ==
    <<lines, enforce, pc, run, input, blocks, bi, modified, msgs, call,
      dry_run, file>>

\* ---------------------------------------------------------------- bounds
MaxInner == 3
MaxRaw == 5
MaxInnerTwo == 2

\* ------------------------------------------------------ program constants
\* len(TARGET_ATTRS)
NumAttrs == 4
\* the default inner indentation "  "
DefaultIndent == 2
None == -1

\* ------------------------------------------------------------------ lines
Ln(k, ind, a, v) == [k |-> k, ind |-> ind, a |-> a, v |-> v]

Header == Ln("header", 0, 0, "")
Open == Ln("open", 2, 0, "")
Close(ind) == Ln("close", ind, 0, "")
CloseTwo == Ln("close2", 0, 0, "")
Blank == Ln("blank", 0, 0, "")
Comment == Ln("comment", 2, 0, "")
Other(ind) == Ln("other", ind, 0, "")
Attr(ind, a, v) == Ln("attr", ind, a, v)
CAttr(ind, a, v) == Ln("cattr", ind, a, v)

At(s, i) == s[i + 1]

Min(S) == CHOOSE x \in S : \A y \in S : x <= y

\* TARGET_ATTRS and GROUPS, by index into TARGET_ATTRS
TARGET_ATTRS == 1..NumAttrs
GROUPS == <<(<<1, 2>>), (<<3, 4>>)>>

\* RESOURCE_HEADER_RE.match(line)
RESOURCE_HEADER_RE(l) == l.k = "header"

\* line.count("{") and line.count("}")
CountOpen(l) == IF l.k \in {"header", "open"} THEN 1 ELSE 0
CountClose(l) == IF l.k = "close" THEN 1 ELSE IF l.k = "close2" THEN 2 ELSE 0

\* build_uncommented_exact_re(attr, value).match(line)
build_uncommented_exact_re(l, a) == l.k = "attr" /\ l.a = a /\ l.v = "want"

\* build_any_value_uncommented_re(attr).match(line)
build_any_value_uncommented_re(l, a) == l.k = "attr" /\ l.a = a

\* build_comment_re(attr).match(line)
build_comment_re(l, a) == l.k = "cattr" /\ l.a = a

\* line.strip() == ""
IsBlank(l) == l.k = "blank"

\* s = line.lstrip(); s == "" or s.startswith("#") or s.startswith("//")
IsBlankOrComment(l) == l.k \in {"blank", "comment", "cattr"}

\* re.match(r'^(\s*)', line).group(1), as a number of spaces
LeadingWs(l) == l.ind

\* f"{indent}{attr} = {value}"
TargetLine(indent, a) == Attr(indent, a, "want")

\* list.insert(i, x), del list[i]
Insert(s, i, x) ==
    LET p == IF i > Len(s) THEN Len(s) ELSE i
    IN  SubSeq(s, 1, p) \o <<x>> \o SubSeq(s, p + 1, Len(s))
Delete(s, i) == SubSeq(s, 1, i) \o SubSeq(s, i + 2, Len(s))
Replace(s, i, x) == [s EXCEPT ![i + 1] = x]

\* ---------------------------------------------------- find_resource_blocks
\* The inner while loop: walks j from the header, returns the index at which
\* depth returns to 0, None when the input ends first.
RECURSIVE WalkDepth(_, _, _)
WalkDepth(ls, j, depth) ==
    IF j >= Len(ls) THEN None
    ELSE LET d == depth + CountOpen(At(ls, j)) - CountClose(At(ls, j))
         IN  IF d = 0 THEN j ELSE WalkDepth(ls, j + 1, d)

RECURSIVE FindFrom(_, _, _)
FindFrom(ls, i, acc) ==
    IF i >= Len(ls) THEN acc
    ELSE IF RESOURCE_HEADER_RE(At(ls, i))
         THEN LET j == WalkDepth(ls, i, 0)
              IN  IF j = None THEN FindFrom(ls, i + 1, acc)
                  ELSE FindFrom(ls, j + 1, Append(acc, <<i, j>>))
         ELSE FindFrom(ls, i + 1, acc)

\* find_resource_blocks that closes an unterminated block at the last line.
RECURSIVE FindFrom_EofCloses(_, _, _)
FindFrom_EofCloses(ls, i, acc) ==
    IF i >= Len(ls) THEN acc
    ELSE IF RESOURCE_HEADER_RE(At(ls, i))
         THEN LET j == WalkDepth(ls, i, 0)
              IN  IF j = None THEN Append(acc, <<i, Len(ls) - 1>>)
                  ELSE FindFrom_EofCloses(ls, j + 1, Append(acc, <<i, j>>))
         ELSE FindFrom_EofCloses(ls, i + 1, acc)

find_resource_blocks_EofCloses(ls) == FindFrom_EofCloses(ls, 0, <<>>)

find_resource_blocks(ls) == FindFrom(ls, 0, <<>>)

\* ----------------------------------------------- ensure_attributes_in_block
\* The two loops that read the block before anything is written index the
\* buffer with start+1 .. end; an index past the buffer raises IndexError.
\* Indentation loop (lines 95-99): stops at the first non-blank line.
IndentLoopRaises(ls, start, end) ==
    \E k \in (start + 1)..end :
        /\ k >= Len(ls)
        /\ \A j \in (start + 1)..(k - 1) : IsBlank(At(ls, j))

\* Scan loop (lines 107-117): reads every index of range(start + 1, end).
ScanLoopRaises(ls, start, end) ==
    \E idx \in (start + 1)..(end - 1) : idx >= Len(ls)

EnsureRaises(ls, start, end) ==
    IndentLoopRaises(ls, start, end) \/ ScanLoopRaises(ls, start, end)

\* inner_indent: leading whitespace of the first non-blank line of
\* range(start + 1, end + 1), "  " when there is none or when it is empty.
InnerIndent(ls, start, end) ==
    LET cand == {k \in (start + 1)..end : k < Len(ls) /\ ~IsBlank(At(ls, k))}
    IN  IF cand = {} THEN DefaultIndent
        ELSE LET w == LeadingWs(At(ls, Min(cand)))
             IN  IF w = 0 THEN DefaultIndent ELSE w

\* exists_exact[attr], commented_idx[attr], other_value_idx[attr] after the
\* scan of range(start + 1, end): the if / elif / elif chain per line.
ExistsExact(ls, start, end, a) ==
    \E idx \in (start + 1)..(end - 1) : build_uncommented_exact_re(At(ls, idx), a)

\* commented_idx without the "is None" guard: the last commented line wins.
CommentedIdx_Last(ls, start, end, a) ==
    LET S == {idx \in (start + 1)..(end - 1) :
                /\ ~build_uncommented_exact_re(At(ls, idx), a)
                /\ build_comment_re(At(ls, idx), a)}
    IN  IF S = {} THEN None ELSE CHOOSE x \in S : \A y \in S : y <= x

CommentedIdx(ls, start, end, a) ==
    LET S == {idx \in (start + 1)..(end - 1) :
                /\ ~build_uncommented_exact_re(At(ls, idx), a)
                /\ build_comment_re(At(ls, idx), a)}
    IN  IF S = {} THEN None ELSE Min(S)

OtherValueIdx(ls, start, end, a) ==
    LET S == {idx \in (start + 1)..(end - 1) :
                /\ ~build_uncommented_exact_re(At(ls, idx), a)
                /\ ~build_comment_re(At(ls, idx), a)
                /\ build_any_value_uncommented_re(At(ls, idx), a)}
    IN  IF S = {} THEN None ELSE Min(S)

Msg(kind, a, at) == [kind |-> kind, attr |-> a, at |-> at]

\* indent = re.match(r'^(\s*)', lines[i]).group(1) or inner_indent
IndentOr(l, inner) == IF LeadingWs(l) = 0 THEN inner ELSE LeadingWs(l)

\* lines[i] = new_line when it differs (lines 136-142 and 147-153)
Rewrite(st, i, a, inner, kind) ==
    LET new_line == TargetLine(IndentOr(At(st.lines, i), inner), a)
    IN  IF At(st.lines, i) # new_line
        THEN [st EXCEPT !.lines = Replace(st.lines, i, new_line),
                        !.modified = TRUE,
                        !.msgs = Append(st.msgs, Msg(kind, a, i + 1))]
        ELSE st

\* The append without "end += 1": every line is inserted at the same index.
AppendBeforeClose_NoShift(st, a, inner) ==
    [st EXCEPT !.lines = Insert(st.lines, st.end, TargetLine(inner, a)),
               !.modified = TRUE,
               !.msgs = Append(st.msgs, Msg("appended", a, st.end + 1))]

\* lines.insert(end, ...); end += 1 (lines 157-162)
AppendBeforeClose(st, a, inner) ==
    [st EXCEPT !.lines = Insert(st.lines, st.end, TargetLine(inner, a)),
               !.modified = TRUE,
               !.msgs = Append(st.msgs, Msg("appended", a, st.end + 1)),
               !.end = st.end + 1]

\* ReconcileAttr with the enforcement branch lost: a line with another value
\* is skipped whatever enforce says.
ReconcileAttr_EnforceIgnored(st, ls0, start, end0, enf, a) ==
    LET inner == InnerIndent(ls0, start, end0)
        other == OtherValueIdx(ls0, start, end0, a)
        commented == CommentedIdx(ls0, start, end0, a)
    IN  IF ExistsExact(ls0, start, end0, a)
        THEN [st EXCEPT !.msgs = Append(st.msgs, Msg("nochange", a, 0))]
        ELSE IF other # None
        THEN [st EXCEPT !.msgs = Append(st.msgs, Msg("skipped", a, other + 1))]
        ELSE IF commented # None
        THEN Rewrite(st, commented, a, inner, "uncommented")
        ELSE AppendBeforeClose(st, a, inner)

\* ReconcileAttr with the skip branch lost: a line with another value is
\* rewritten whatever enforce says.
ReconcileAttr_AlwaysEnforce(st, ls0, start, end0, enf, a) ==
    LET inner == InnerIndent(ls0, start, end0)
        other == OtherValueIdx(ls0, start, end0, a)
        commented == CommentedIdx(ls0, start, end0, a)
    IN  IF ExistsExact(ls0, start, end0, a)
        THEN [st EXCEPT !.msgs = Append(st.msgs, Msg("nochange", a, 0))]
        ELSE IF other # None
        THEN Rewrite(st, other, a, inner, "updated")
        ELSE IF commented # None
        THEN Rewrite(st, commented, a, inner, "uncommented")
        ELSE AppendBeforeClose(st, a, inner)

\* One iteration of the loop of lines 120-162.  ls0 is the buffer the scan
\* read; st = [lines, end, modified, msgs] is the state the loop carries.
ReconcileAttr(st, ls0, start, end0, enf, a) ==
    LET inner == InnerIndent(ls0, start, end0)
        other == OtherValueIdx(ls0, start, end0, a)
        commented == CommentedIdx(ls0, start, end0, a)
    IN  IF ExistsExact(ls0, start, end0, a)
        THEN [st EXCEPT !.msgs = Append(st.msgs, Msg("nochange", a, 0))]
        ELSE IF other # None /\ ~enf
        THEN [st EXCEPT !.msgs = Append(st.msgs, Msg("skipped", a, other + 1))]
        ELSE IF other # None /\ enf
        THEN Rewrite(st, other, a, inner, "updated")
        ELSE IF commented # None
        THEN Rewrite(st, commented, a, inner, "uncommented")
        ELSE AppendBeforeClose(st, a, inner)

RECURSIVE ReconcileFrom(_, _, _, _, _, _)
ReconcileFrom(st, ls0, start, end0, enf, a) ==
    IF a > NumAttrs THEN st
    ELSE ReconcileFrom(ReconcileAttr(st, ls0, start, end0, enf, a),
                       ls0, start, end0, enf, a + 1)

\* Lines 90-162: everything before the adjacency pass.
Reconcile(ls, start, end, enf) ==
    ReconcileFrom([lines |-> ls, end |-> end, modified |-> FALSE, msgs |-> <<>>],
                  ls, start, end, enf, 1)

\* idx_of_attr: the first index of range(start + 1, end) whose line is an
\* uncommented assignment of attr, None when there is none.  end is the
\* closure's end: the value after the appends, which the deletions of the
\* adjacency pass do not change.
idx_of_attr(ls, start, end, a) ==
    LET S == {i \in (start + 1)..(end - 1) :
                i < Len(ls) /\ build_any_value_uncommented_re(At(ls, i), a)}
    IN  IF S = {} THEN None ELSE Min(S)

\* idx_of_attr reads an index past the buffer before it finds a match
IdxOfAttrRaises(ls, start, end, a) ==
    /\ end - 1 >= Len(ls)
    /\ start + 1 <= end - 1
    /\ idx_of_attr(ls, start, Len(ls), a) = None

\* only_comments_between with the range off by one: range(i1, i2) also
\* reads the first member's own line.
only_comments_between_FromFirst(ls, i1, i2) ==
    \A k \in i1..(i2 - 1) : IsBlankOrComment(At(ls, k))

only_comments_between(ls, i1, i2) ==
    \A k \in (i1 + 1)..(i2 - 1) : IsBlankOrComment(At(ls, k))

\* The body of the loop over GROUPS for one group (lines 180-200).
AdjacencyGroup(st, start, g) ==
    LET i1 == idx_of_attr(st.lines, start, st.end, g[1])
        i2 == idx_of_attr(st.lines, start, st.end, g[2])
    IN  IF i1 = None \/ i2 = None \/ i2 <= i1 THEN st
        ELSE LET ls == st.lines
                 kept == SelectSeq(SubSeq(ls, i1 + 2, i2), LAMBDA l : ~IsBlank(l))
                 removed == (i2 - i1 - 1) - Len(kept)
                 j2 == i2 - removed
                 ls1 == SubSeq(ls, 1, i1 + 1) \o kept \o SubSeq(ls, i2 + 1, Len(ls))
                 move == j2 # i1 + 1 /\ only_comments_between(ls1, i1, j2)
                 ls2 == IF move
                        THEN Insert(Delete(ls1, j2), i1 + 1, At(ls1, j2))
                        ELSE ls1
             IN  [st EXCEPT !.lines = ls2,
                            !.modified = st.modified \/ removed > 0 \/ move]

\* The adjacency pass (lines 179-200), over GROUPS in order.
Adjacency(st, start) ==
    AdjacencyGroup(AdjacencyGroup(st, start, GROUPS[1]), start, GROUPS[2])

AdjacencyRaises(st, start) ==
    LET s1 == AdjacencyGroup(st, start, GROUPS[1])
    IN  \/ \E a \in {GROUPS[1][1], GROUPS[1][2]} :
               IdxOfAttrRaises(st.lines, start, st.end, a)
        \/ \E a \in {GROUPS[2][1], GROUPS[2][2]} :
               IdxOfAttrRaises(s1.lines, start, s1.end, a)

\* ensure_attributes_in_block(lines, start, end, enforce): the buffer after
\* the call and (modified, end, msgs); mid is the buffer between the
\* reconciliation loop and the adjacency pass; raised tells an IndexError.
ensure_attributes_in_block(ls, start, end, enf) ==
    IF EnsureRaises(ls, start, end)
    THEN [lines |-> ls, end |-> end, modified |-> FALSE, msgs |-> <<>>,
          mid |-> ls, raised |-> TRUE]
    ELSE LET r == Reconcile(ls, start, end, enf)
             f == Adjacency(r, start)
         IN  [lines |-> f.lines, end |-> f.end, modified |-> f.modified,
              msgs |-> f.msgs, mid |-> r.lines,
              raised |-> AdjacencyRaises(r, start)]

\* ------------------------------------------------------------ process_file
NoCall ==
    [n |-> 0, pre |-> <<>>, start |-> 0, end |-> 0, ret |-> 0, mid |-> <<>>,
     changed |-> FALSE, msgs |-> <<>>]

\* all_msgs.extend([f"[{start+1}-{end+1}] {m}" for m in msgs])
RECURSIVE Tagged(_, _, _)
Tagged(ms, start, end) ==
    IF ms = <<>> THEN <<>>
    ELSE <<[from |-> start + 1, to |-> end + 1, kind |-> Head(ms).kind,
            attr |-> Head(ms).attr, at |-> Head(ms).at]>>
         \o Tagged(Tail(ms), start, end)

\* Lines 209-222: the buffer is read and the blocks are located, once.
Start ==
    /\ pc = "start"
    /\ blocks' = find_resource_blocks(lines)
    /\ bi' = 1
    /\ pc' = IF blocks' = <<>> THEN "done" ELSE "ensure"
    /\ UNCHANGED <<lines, enforce, run, input, modified, msgs, call, dry_run, file>>

\* text.endswith("\n") of the text whose split("\n") is buf: the last of at
\* least two elements is the empty string.
EndsWithNewline(buf) == Len(buf) >= 2 /\ buf[Len(buf)] = Blank

\* Lines 232-234, and the split of line 216 when the text is read again: the
\* joined buffer gets a final newline when the text read ended with one and
\* the joined buffer does not.
Reassemble(buf, orig) ==
    IF EndsWithNewline(orig) /\ ~EndsWithNewline(buf)
    THEN buf \o <<Blank>>
    ELSE buf

\* Lines 242-253: the file is written when a call reported a change and
\* --dry-run is off, and is left as it was otherwise.
WriteFile(buf, changed) ==
    IF changed /\ ~dry_run THEN Reassemble(buf, input) ELSE file

\* Lines 226-253: one iteration of the loop over the located blocks, with
\* the (start, end) found before the loop started, and after the last one
\* the reassembly and the write.  An IndexError ends the run with a
\* traceback and nothing written.
EnsureBlock ==
    /\ pc = "ensure"
    /\ bi <= Len(blocks)
    /\ LET start == blocks[bi][1]
           end == blocks[bi][2]
           r == ensure_attributes_in_block(lines, start, end, enforce)
       IN  IF r.raised
           THEN /\ pc' = "error"
                /\ call' = [n |-> bi, pre |-> lines, start |-> start, end |-> end,
                            ret |-> end, mid |-> lines, changed |-> FALSE,
                            msgs |-> <<>>]
                /\ UNCHANGED <<lines, modified, msgs, bi, file>>
           ELSE /\ lines' = r.lines
                /\ modified' = (modified \/ r.modified)
                /\ msgs' = msgs \o Tagged(r.msgs, start, r.end)
                /\ call' = [n |-> bi, pre |-> lines, start |-> start, end |-> end,
                            ret |-> r.end, mid |-> r.mid, changed |-> r.modified,
                            msgs |-> r.msgs]
                /\ bi' = bi + 1
                /\ pc' = IF bi = Len(blocks) THEN "done" ELSE "ensure"
                /\ file' = IF bi = Len(blocks)
                           THEN WriteFile(r.lines, modified \/ r.modified)
                           ELSE file
    /\ UNCHANGED <<enforce, run, input, blocks, dry_run>>

\* After an invocation that returned 0 the tool is invoked again on the same
\* path with the same flags: lines 209-217 read the file as the first
\* invocation left it.
Rerun ==
    /\ pc = "done"
    /\ run = 1
    /\ run' = 2
    /\ lines' = file
    /\ input' = file
    /\ pc' = "start"
    /\ blocks' = <<>>
    /\ bi' = 1
    /\ modified' = FALSE
    /\ msgs' = <<>>
    /\ call' = NoCall
    /\ UNCHANGED <<enforce, dry_run, file>>

Next == Start \/ EnsureBlock \/ Rerun

\* ------------------------------------------------------------------ inputs
SeqsUpTo(S, n) == UNION {[1..k -> S] : k \in 0..n}

\* Interior lines of the one-block inputs.
AlphaOne ==
    {Blank, Comment, Other(2),
     Attr(2, 1, "want"), CAttr(2, 1, "diff"),
     Attr(2, 2, "want"), Attr(2, 2, "diff"), CAttr(0, 2, "want"),
     Attr(2, 3, "want"), CAttr(2, 3, "want")}

\* One block: header, at most MaxInner interior lines, closing brace.
FamOne == {<<Header>> \o body \o <<Close(0)>> : body \in SeqsUpTo(AlphaOne, MaxInner)}

Block(body) == <<Header>> \o body \o <<Close(0)>>

\* Two blocks, one after the other, the first with fewer than MaxInner
\* interior lines and the second with at most one: the second is handed to
\* the reconciler with the range found before the first was patched.
AlphaPair == {Blank, Attr(2, 1, "want"), Attr(2, 2, "diff"), CAttr(2, 3, "want")}
FamPair ==
    {Block(x) \o Block(y) :
        x \in SeqsUpTo(AlphaPair, MaxInner - 1), y \in SeqsUpTo(AlphaPair, 1)}

\* Any buffer of at most MaxRaw lines over headers, braces (one or two
\* closing braces on a line), blank lines and one attribute line: nested,
\* unterminated and back-to-back blocks, and depths that skip zero.
AlphaRaw == {Header, Open, Close(0), CloseTwo, Blank, Attr(2, 1, "want")}
FamRaw == SeqsUpTo(AlphaRaw, MaxRaw) \ {<<>>}

\* Two blocks whose interiors are short, or already hold the four lines
\* (Spaced: with a blank line inside the first pair; SpacedTwice: with one
\* inside each pair), in a file that ends with or without a newline.
Compliant == [a \in 1..NumAttrs |-> Attr(2, a, "want")]
Spaced == <<Attr(2, 1, "want"), Blank>> \o Tail(Compliant)
SpacedTwice ==
    <<Attr(2, 1, "want"), Blank, Attr(2, 2, "want"), Attr(2, 3, "want"), Blank,
      Attr(2, 4, "want")>>
AlphaTwo == {Blank, Other(2), Attr(2, 1, "want"), Attr(2, 2, "want")}
InnerTwo == SeqsUpTo(AlphaTwo, MaxInnerTwo) \cup {Compliant, Spaced, SpacedTwice}
FamTwo ==
    {Block(x) \o Block(y) \o eof : x, y \in InnerTwo, eof \in {<<>>, <<Blank>>}}

InitWith(F) ==
    /\ lines \in F
    /\ enforce \in BOOLEAN
    /\ pc = "start"
    /\ run = 1
    /\ input = lines
    /\ blocks = <<>>
    /\ bi = 1
    /\ modified = FALSE
    /\ msgs = <<>>
    /\ call = NoCall
    /\ dry_run \in BOOLEAN
    /\ file = lines

InitOne == InitWith(FamOne \cup FamPair)
SpecOne == InitOne /\ [][Next]_vars

\* One block whose lines and closing brace carry different indentations.
AlphaIndent ==
    {Blank, Comment, Other(0), Other(4), CAttr(0, 1, "want"), Attr(4, 2, "diff")}
FamIndent ==
    {<<Header>> \o body \o <<Close(c)>> :
        body \in SeqsUpTo(AlphaIndent, MaxInner), c \in {0, 4}}

InitIndent == InitWith(FamIndent)
SpecIndent == InitIndent /\ [][Next]_vars

InitRaw == InitWith(FamRaw)
SpecRaw == InitRaw /\ [][Next]_vars

InitTwo == InitWith(FamTwo)
SpecTwo == InitTwo /\ [][Next]_vars

\* ------------------------------------------------------------------ claims
\* The last call of ensure_attributes_in_block returned (no IndexError).
Returned == call.n > 0 /\ pc # "error"

\* The range the last call was given is a block of the buffer it was given:
\* what find_resource_blocks returns on that buffer.
ValidCall ==
    LET fb == find_resource_blocks(call.pre)
    IN  \E k \in 1..Len(fb) : fb[k] = <<call.start, call.end>>

\* Index of the closing-brace line of the block of the last call, in the
\* buffer the call left.
CloseIdx == WalkDepth(lines, call.start, 0)

\* Indices of the uncommented assignments of attribute a in buf[s+1 .. e-1].
Uncommented(buf, s, e, a) ==
    {i \in (s + 1)..(e - 1) : At(buf, i).k = "attr" /\ At(buf, i).a = a}

\* C1 (as claimed): a call changes nothing outside the block it is run for:
\* the buffer up to and including the block's header line, and from the
\* block's closing-brace line to the end, is the same before and after.
CE_C1_NoCrossBlockLeakage ==
    Returned =>
        LET fb == find_resource_blocks(call.pre)
        IN  call.n <= Len(fb) =>
                LET s == fb[call.n][1]
                    e == fb[call.n][2]
                    tail == Len(call.pre) - e
                IN  /\ Len(lines) >= s + 1 + tail
                    /\ SubSeq(lines, 1, s + 1) = SubSeq(call.pre, 1, s + 1)
                    /\ SubSeq(lines, Len(lines) - tail + 1, Len(lines))
                         = SubSeq(call.pre, e + 1, Len(call.pre))

\* C2 (as claimed): with enforcement off, a second run on the result the
\* first run wrote ends with the buffer it read and reports no modification.
CE_C2_Idempotent ==
    (run = 2 /\ ~enforce /\ ~dry_run /\ pc \in {"done", "error"}) =>
        (pc = "done" /\ lines = input /\ ~modified)

\* C9 (as claimed): the end index a call returns is the index of the block's
\* closing-brace line in the buffer the call leaves.
CE_C9_ReturnedEndIsClose ==
    (Returned /\ ValidCall) => call.ret = CloseIdx

\* C10 (as claimed, the default case): when no interior line of the block is
\* non-blank, every appended line is indented by exactly two spaces; the
\* closing-brace line's indentation is not used.
CE_C10_DefaultIndentWhenInteriorBlank ==
    (Returned /\ ValidCall
       /\ \A k \in (call.start + 1)..(call.end - 1) : IsBlank(At(call.pre, k)))
    => \A i \in 1..Len(call.msgs) :
           call.msgs[i].kind = "appended" =>
               At(call.mid, call.msgs[i].at - 1).ind = DefaultIndent

\* First uncommented assignment of attribute a in buf[s+1 .. e-1], or None.
FirstUncommented(buf, s, e, a) ==
    IF Uncommented(buf, s, e, a) = {} THEN None ELSE Min(Uncommented(buf, s, e, a))

\* Indices of the commented assignments of attribute a in buf[s+1 .. e-1].
Commented(buf, s, e, a) ==
    {i \in (s + 1)..(e - 1) : At(buf, i).k = "cattr" /\ At(buf, i).a = a}

\* The uncommented assignments of a non-desired value, in buffer order.
DiffLines(buf) == SelectSeq(buf, LAMBDA l : l.k = "attr" /\ l.v = "diff")

HasMsg(kind, a, at) ==
    \E i \in 1..Len(call.msgs) : call.msgs[i] = Msg(kind, a, at)

\* C3 (amended): after a call with enforce = true on a block, every target
\* attribute has an uncommented line with the desired value in the block, and
\* an attribute that had at most one uncommented assignment in the block
\* before has exactly one after, with the desired value.  (Of several
\* uncommented assignments only the first is rewritten, and none when one of
\* them already has the desired value.)
T_C3_EnforceCompletes ==
    (Returned /\ ValidCall /\ enforce) =>
        \A a \in TARGET_ATTRS :
            LET before == Uncommented(call.pre, call.start, call.end, a)
                after == Uncommented(lines, call.start, CloseIdx, a)
            IN  /\ \E i \in after : At(lines, i).v = "want"
                /\ Cardinality(before) <= 1 =>
                       /\ Cardinality(after) = 1
                       /\ \A i \in after : At(lines, i).v = "want"

\* C3 (as claimed): after a call with enforce = true every target attribute
\* has exactly one uncommented assignment in the block, with the desired
\* value, duplicates included.
CE_C3_ExactlyOneAlways ==
    (Returned /\ ValidCall /\ enforce) =>
        \A a \in TARGET_ATTRS :
            LET after == Uncommented(lines, call.start, CloseIdx, a)
            IN  /\ Cardinality(after) = 1
                /\ \A i \in after : At(lines, i).v = "want"

\* C3 witness: an enforcing call rewrote the only uncommented assignment of
\* an attribute, which had another value.
W_C3_OtherValueEnforced ==
    /\ Returned /\ ValidCall /\ enforce
    /\ \E a \in TARGET_ATTRS :
           LET before == Uncommented(call.pre, call.start, call.end, a)
           IN  /\ Cardinality(before) = 1
               /\ \A i \in before : At(call.pre, i).v = "diff"
               /\ \A i \in before : HasMsg("updated", a, i + 1)

\* C4 (amended): with enforce = false a call leaves every uncommented
\* assignment of a non-desired value in the buffer, text and relative order
\* unchanged, and it emits a skip message, naming the first such line, for
\* every attribute that has one in the block and no uncommented line with
\* the desired value there.  (With such a line the message is "No change".)
T_C4_OtherValueKept ==
    (Returned /\ ~enforce) =>
        /\ DiffLines(lines) = DiffLines(call.pre)
        /\ ValidCall =>
               \A a \in TARGET_ATTRS :
                   LET un == Uncommented(call.pre, call.start, call.end, a)
                       others == {i \in un : At(call.pre, i).v = "diff"}
                   IN  (others # {} /\ others = un) =>
                           HasMsg("skipped", a, Min(others) + 1)

\* C4 (as claimed): with enforce = false, an attribute with an uncommented
\* assignment of a non-desired value in the block keeps that line and gets a
\* skip message.
CE_C4_SkipMessageAlways ==
    (Returned /\ ValidCall /\ ~enforce) =>
        \A a \in TARGET_ATTRS :
            LET un == Uncommented(call.pre, call.start, call.end, a)
                others == {i \in un : At(call.pre, i).v = "diff"}
            IN  others # {} =>
                    /\ DiffLines(lines) = DiffLines(call.pre)
                    /\ \E i \in 1..Len(call.msgs) :
                           call.msgs[i].kind = "skipped" /\ call.msgs[i].attr = a

\* C4 witness: a call without enforcement skipped an attribute with another
\* value and changed the block elsewhere.
W_C4_SkippedWhileChanging ==
    /\ Returned /\ ValidCall /\ ~enforce /\ call.changed
    /\ \E a \in TARGET_ATTRS :
           \E i \in Uncommented(call.pre, call.start, call.end, a) :
               At(call.pre, i).v = "diff" /\ HasMsg("skipped", a, i + 1)

\* Lines strictly between two indices, whichever comes first.
Between(p, q) == IF p < q THEN (p + 1)..(q - 1) ELSE (q + 1)..(p - 1)

\* C5 (amended): after a call on a block, for each adjacency group whose
\* first member's first uncommented line precedes the second member's, the
\* two lines are consecutive, or a non-blank, non-comment line (possibly one
\* the call itself rewrote) lies between them; no blank line is left between
\* them.  A pair in the opposite order is left as it is.
T_C5_AdjacentWhenOrdered ==
    (Returned /\ ValidCall) =>
        \A g \in 1..Len(GROUPS) :
            LET p1 == FirstUncommented(lines, call.start, CloseIdx, GROUPS[g][1])
                p2 == FirstUncommented(lines, call.start, CloseIdx, GROUPS[g][2])
            IN  /\ p1 # None /\ p2 # None
                /\ p1 < p2 =>
                       /\ \/ p2 = p1 + 1
                          \/ \E k \in Between(p1, p2) : ~IsBlankOrComment(At(lines, k))
                       /\ \A k \in Between(p1, p2) : ~IsBlank(At(lines, k))

\* C5 (as claimed): after a call on a block, in either order of the pair,
\* the second member's line is right after the first member's, or a
\* non-blank, non-comment line the block already held lies between them.
CE_C5_AdjacentAnyOrder ==
    (Returned /\ ValidCall) =>
        \A g \in 1..Len(GROUPS) :
            LET p1 == FirstUncommented(lines, call.start, CloseIdx, GROUPS[g][1])
                p2 == FirstUncommented(lines, call.start, CloseIdx, GROUPS[g][2])
            IN  (p1 # None /\ p2 # None) =>
                    \/ p2 = p1 + 1
                    \/ \E k \in Between(p1, p2) :
                           /\ ~IsBlankOrComment(At(lines, k))
                           /\ \E j \in (call.start + 1)..(call.end - 1) :
                                  At(call.pre, j) = At(lines, k)

\* C5 witness: a pair that only comment or blank lines separated, at least
\* one of them a comment, was made consecutive by the call.
W_C5_MovedAcrossComment ==
    /\ Returned /\ ValidCall
    /\ \E g \in 1..Len(GROUPS) :
           LET q1 == FirstUncommented(call.pre, call.start, call.end, GROUPS[g][1])
               q2 == FirstUncommented(call.pre, call.start, call.end, GROUPS[g][2])
               p1 == FirstUncommented(lines, call.start, CloseIdx, GROUPS[g][1])
               p2 == FirstUncommented(lines, call.start, CloseIdx, GROUPS[g][2])
           IN  /\ q1 # None /\ q2 # None /\ q1 < q2
               /\ \A k \in Between(q1, q2) : IsBlankOrComment(At(call.pre, k))
               /\ \E k \in Between(q1, q2) : At(call.pre, k).k = "comment"
               /\ p2 = p1 + 1

\* C6 (amended): for either value of enforce, when an attribute has a
\* commented assignment in the block and no uncommented one (of any value),
\* the call replaces the first commented line by the target line, keeping the
\* line's own indentation when it has some, leaves the attribute's other
\* commented lines alone and reports a modification.  When the attribute has
\* an uncommented assignment, its commented lines are left as they are.
T_C6_UncommentWhenNoUncommented ==
    (Returned /\ ValidCall) =>
        \A a \in TARGET_ATTRS :
            LET cs == Commented(call.pre, call.start, call.end, a)
                un == Uncommented(call.pre, call.start, call.end, a)
            IN  /\ (cs # {} /\ un = {}) =>
                       LET i == Min(cs)
                           old == At(call.pre, i)
                           new == At(call.mid, i)
                       IN  /\ new.k = "attr" /\ new.a = a /\ new.v = "want"
                           /\ old.ind > 0 => new.ind = old.ind
                           /\ \A j \in cs \ {i} : At(call.mid, j) = At(call.pre, j)
                           /\ call.changed
                           /\ HasMsg("uncommented", a, i + 1)
                /\ (cs # {} /\ un # {}) =>
                       \A j \in cs : At(call.mid, j) = At(call.pre, j)

\* C6 (as claimed): when an attribute has a commented assignment in the block
\* and no uncommented line with the desired value, the first commented line
\* is replaced by the target line and the block is marked modified, also
\* when an uncommented line with another value is present.
CE_C6_UncommentDespiteOtherValue ==
    (Returned /\ ValidCall) =>
        \A a \in TARGET_ATTRS :
            LET cs == Commented(call.pre, call.start, call.end, a)
                un == Uncommented(call.pre, call.start, call.end, a)
            IN  (cs # {} /\ \A i \in un : At(call.pre, i).v # "want") =>
                    LET new == At(call.mid, Min(cs))
                    IN  /\ new.k = "attr" /\ new.a = a /\ new.v = "want"
                        /\ call.changed

\* C6 witness: an enforcing call uncommented a line that had no indentation
\* of its own.
W_C6_UncommentedUnderEnforce ==
    /\ Returned /\ ValidCall /\ enforce
    /\ \E a \in TARGET_ATTRS :
           \E i \in Commented(call.pre, call.start, call.end, a) :
               /\ At(call.pre, i).ind = 0
               /\ HasMsg("uncommented", a, i + 1)
               /\ At(call.mid, i).k = "attr"

\* Brace depth at line j of a walk that starts at line h with depth 0.
RECURSIVE DepthAt(_, _, _)
DepthAt(buf, h, j) ==
    IF j < h THEN 0
    ELSE DepthAt(buf, h, j - 1) + CountOpen(At(buf, j)) - CountClose(At(buf, j))

\* Line h is a resource header whose depth never returns to zero.
Unterminated(buf, h) ==
    /\ RESOURCE_HEADER_RE(At(buf, h))
    /\ \A j \in h..(Len(buf) - 1) : DepthAt(buf, h, j) # 0

\* Line h is a resource header whose depth first returns to zero at line e.
TerminatedAt(buf, h, e) ==
    /\ RESOURCE_HEADER_RE(At(buf, h))
    /\ DepthAt(buf, h, e) = 0
    /\ \A j \in h..(e - 1) : DepthAt(buf, h, j) # 0

InBlock(h) == \E k \in 1..Len(blocks) : blocks[k][1] <= h /\ h <= blocks[k][2]

StartsBlock(h) == \E k \in 1..Len(blocks) : blocks[k][1] = h

\* No line of the buffer holds more than one closing brace.
SingleCloses(buf) == \A i \in 0..(Len(buf) - 1) : CountClose(At(buf, i)) <= 1

\* C7 (amended): a header whose depth never returns to zero starts no block,
\* and the scan returns without an error; when no block is found at all the
\* buffer is left as it was.  Such a header lies inside no block either when
\* no line holds more than one closing brace.  Scanning resumes on the line
\* after such a header: a later header whose own depth first returns to zero
\* at line e is the block (h, e), unless it lies inside a block that starts
\* at an earlier header.
T_C7_UnterminatedSkipped ==
    pc # "start" =>
        /\ \A h \in 0..(Len(input) - 1) :
               Unterminated(input, h) =>
                   /\ ~StartsBlock(h)
                   /\ SingleCloses(input) => ~InBlock(h)
        /\ \A h \in 0..(Len(input) - 1) : \A e \in h..(Len(input) - 1) :
               TerminatedAt(input, h, e) =>
                   \/ \E k \in 1..Len(blocks) : blocks[k] = <<h, e>>
                   \/ \E k \in 1..Len(blocks) : blocks[k][1] < h /\ h <= blocks[k][2]
        /\ blocks = <<>> => (pc = "done" /\ lines = input /\ ~modified)

\* C7 (as claimed): an unterminated header starts no block, and no line from
\* it to the end of the input is changed by the run, also when a later
\* header is followed by balanced braces.
CE_C7_NothingAfterUnterminated ==
    (pc = "done" /\ run = 1) =>
        \A h \in 0..(Len(input) - 1) :
            Unterminated(input, h) =>
                /\ ~StartsBlock(h)
                /\ SubSeq(lines, h + 1, Len(lines)) = SubSeq(input, h + 1, Len(input))

\* C7 witness: the input has an unterminated header and a later header whose
\* block was found and patched.
W_C7_LaterBlockPatched ==
    /\ pc = "done" /\ run = 1 /\ modified
    /\ \E h \in 0..(Len(input) - 1) :
           /\ Unterminated(input, h)
           /\ \E k \in 1..Len(blocks) : blocks[k][1] > h

\* C8: in a buffer with one block that holds no assignment of a target
\* attribute, commented or not, the run inserts exactly four lines, the
\* target lines in the order of TARGET_ATTRS, right before the closing
\* brace; all other lines keep their text and order.
T_C8_AppendWhenAbsent ==
    (pc = "done" /\ Len(blocks) = 1) =>
        LET s == blocks[1][1]
            e == blocks[1][2]
        IN  (\A i \in (s + 1)..(e - 1) : At(input, i).k \notin {"attr", "cattr"}) =>
                /\ modified
                /\ Len(lines) = Len(input) + NumAttrs
                /\ SubSeq(lines, 1, e) = SubSeq(input, 1, e)
                /\ SubSeq(lines, e + NumAttrs + 1, Len(lines))
                     = SubSeq(input, e + 1, Len(input))
                /\ \A a \in TARGET_ATTRS :
                       build_uncommented_exact_re(At(lines, e + a - 1), a)

\* C8 witness: a block with interior lines but no target attribute got the
\* four lines.
W_C8_AppendedAfterContent ==
    /\ pc = "done" /\ Len(blocks) = 1
    /\ blocks[1][2] > blocks[1][1] + 1
    /\ \A i \in (blocks[1][1] + 1)..(blocks[1][2] - 1) :
           At(input, i).k \notin {"attr", "cattr"}
    /\ Len(lines) = Len(input) + NumAttrs

====
